---- MODULE Spec2Model ----
(***************************************************************************)
(* Model of the terminal PDF viewer of src/src/main.rs: the paginator      *)
(* PdfViewer::split_into_pages, the viewer state with its navigation       *)
(* transitions, and the input loop PdfViewer::run.                         *)
(*                                                                         *)
(* A string is a sequence of one-character strings.  The alphabet of the   *)
(* extracted text is two letters, the space, the line feed and the form    *)
(* feed (the page-break marker).                                           *)
(***************************************************************************)
EXTENDS Integers, Sequences, FiniteSets, TLC

\* ------------------------------------------------------------------ bounds
\* longest extracted text, in characters
MaxLen == 4
\* widest and tallest terminal
MaxWidth == 9
MaxHeight == 11
\* longest extracted text of an interactive session
MaxSessionLen == 2

\* ------------------------------------------------------- program constants
\* columns and rows taken by borders, header and footer
WidthMargin == 6
HeightMargin == 8
\* cells of the progress bar
BarCells == 20

SP == " "
LF == "\n"
FF == "\f"
Letters == {"a", "b"}
Chars == Letters \cup {SP, LF, FF}

\* characters str::trim strips (Unicode White_Space, which holds U+000C)
WhiteSpace == {SP, LF, FF}

Widths == 5..MaxWidth
Heights == 7..MaxHeight

RECURSIVE StringsOfLen(_)
StringsOfLen(n) ==
    IF n = 0 THEN {<< >>}
    ELSE {Append(s, c) : s \in StringsOfLen(n - 1), c \in Chars}

Texts == UNION {StringsOfLen(n) : n \in 0..MaxLen}
SessionTexts == UNION {StringsOfLen(n) : n \in 0..MaxSessionLen}

\* ------------------------------------------------------- string primitives
Min(a, b) == IF a < b THEN a ELSE b
Max(a, b) == IF a > b THEN a ELSE b

\* usize::saturating_sub
saturating_sub(a, b) == IF a > b THEN a - b ELSE 0

RECURSIVE TrimStart(_)
TrimStart(s) ==
    IF s # << >> /\ Head(s) \in WhiteSpace THEN TrimStart(Tail(s)) ELSE s

RECURSIVE TrimEnd(_)
TrimEnd(s) ==
    IF s # << >> /\ s[Len(s)] \in WhiteSpace
    THEN TrimEnd(SubSeq(s, 1, Len(s) - 1))
    ELSE s

\* str::trim
Trim(s) == TrimEnd(TrimStart(s))

\* position of the first c in s, 0 when there is none
FirstIndex(s, c) ==
    LET at == {i \in 1..Len(s) : s[i] = c}
    IN  IF at = {} THEN 0 ELSE CHOOSE i \in at : \A j \in at : i <= j

\* str::split(c): n separators give n + 1 pieces, empty ones included
RECURSIVE Split(_, _)
Split(s, c) ==
    LET i == FirstIndex(s, c)
    IN  IF i = 0 THEN <<s>>
        ELSE <<SubSeq(s, 1, i - 1)>> \o Split(SubSeq(s, i + 1, Len(s)), c)

\* str::lines: split on line feeds, a final empty piece is not a line
Lines(s) ==
    LET ps == Split(s, LF)
    IN  IF ps[Len(ps)] = << >> THEN SubSeq(ps, 1, Len(ps) - 1) ELSE ps

\* lines joined by line feeds
RECURSIVE JoinLF(_)
JoinLF(ls) ==
    IF ls = << >> THEN << >>
    ELSE IF Len(ls) = 1 THEN ls[1]
    ELSE ls[1] \o <<LF>> \o JoinLF(Tail(ls))

IsBlank(s) == Trim(s) = << >>

\* ------------------------------------------------------------ textwrap::fill
\* The wrapping collaborator, by the behaviour of the textwrap crate: every
\* line of the text is cut into words (a run of non-spaces with the spaces
\* that follow it), words wider than the line are broken apart, the words
\* are put on lines first-fit, and a line drops the spaces after its last
\* word.  A word is a record [word, ws]: its characters and the number of
\* spaces after it.
\* The crate may also place the words by its optimal-fit algorithm; the
\* properties below that speak of wrapped lines take them as fill returns
\* them and do not depend on the placement.

\* number of leading characters of s that are (isSp) or are not spaces
RECURSIVE RunLen(_, _)
RunLen(s, isSp) ==
    IF s # << >> /\ ((Head(s) = SP) = isSp) THEN 1 + RunLen(Tail(s), isSp) ELSE 0

RECURSIVE find_words(_)
find_words(line) ==
    IF line = << >> THEN << >>
    ELSE LET w  == RunLen(line, FALSE)
             ws == RunLen(SubSeq(line, w + 1, Len(line)), TRUE)
         IN  <<[word |-> SubSeq(line, 1, w), ws |-> ws]>>
                 \o find_words(SubSeq(line, w + ws + 1, Len(line)))

\* Word::break_apart: pieces of at most line_width characters, never empty;
\* the last piece keeps the spaces
RECURSIVE break_apart(_, _)
break_apart(w, line_width) ==
    LET n == Max(line_width, 1)
    IN  IF Len(w.word) <= n THEN <<w>>
        ELSE <<[word |-> SubSeq(w.word, 1, n), ws |-> 0]>>
                 \o break_apart([word |-> SubSeq(w.word, n + 1, Len(w.word)),
                                 ws |-> w.ws], line_width)

RECURSIVE break_words(_, _)
break_words(words, line_width) ==
    IF words = << >> THEN << >>
    ELSE (IF Len(Head(words).word) > line_width
          THEN break_apart(Head(words), line_width)
          ELSE <<Head(words)>>) \o break_words(Tail(words), line_width)

\* the text of a line of words: the spaces after its last word are dropped
RECURSIVE WordsText(_)
WordsText(ws) ==
    IF ws = << >> THEN << >>
    ELSE IF Len(ws) = 1 THEN ws[1].word
    ELSE ws[1].word \o [i \in 1..ws[1].ws |-> SP] \o WordsText(Tail(ws))

\* wrap_first_fit: a word that does not fit starts a new line, unless it is
\* the first word of its line
RECURSIVE wrap_first_fit(_, _, _, _, _)
wrap_first_fit(words, line_width, cur, width, acc) ==
    IF words = << >> THEN Append(acc, WordsText(cur))
    ELSE LET f == Head(words)
         IN  IF width + Len(f.word) > line_width /\ cur # << >>
             THEN wrap_first_fit(Tail(words), line_width, <<f>>,
                                 Len(f.word) + f.ws, Append(acc, WordsText(cur)))
             ELSE wrap_first_fit(Tail(words), line_width, Append(cur, f),
                                 width + Len(f.word) + f.ws, acc)

wrap_single_line(line, line_width) ==
    wrap_first_fit(break_words(find_words(line), line_width), line_width,
                   << >>, 0, << >>)

RECURSIVE wrap_lines(_, _)
wrap_lines(ls, line_width) ==
    IF ls = << >> THEN << >>
    ELSE wrap_single_line(Head(ls), line_width) \o wrap_lines(Tail(ls), line_width)

\* textwrap::wrap: the wrapped lines of every line of the text
wrap(text, line_width) == wrap_lines(Split(text, LF), line_width)

\* textwrap::fill: the wrapped lines joined by line feeds
fill(text, line_width) == JoinLF(wrap(text, line_width))

\* ------------------------------------------------- PdfViewer::split_into_pages
\* the fixed page returned for a text without content: the message of lines
\* 56-58, character by character (its accented letters without accent and
\* its bullets as "*", each one column wide like the original)
PLACEHOLDER ==
    <<"E", "l", SP, "P", "D", "F", SP, "p", "a", "r", "e", "c", "e", SP, "e",
      "s", "t", "a", "r", SP, "v", "a", "c", "i", "o", SP, "o", SP, "e", "l",
      SP, "t", "e", "x", "t", "o", SP, "n", "o", SP, "s", "e", SP, "p", "u",
      "d", "o", SP, "e", "x", "t", "r", "a", "e", "r", ".", LF, LF, "E", "s",
      "t", "o", SP, "p", "u", "e", "d", "e", SP, "s", "u", "c", "e", "d",
      "e", "r", SP, "c", "o", "n", ":", LF, "*", SP, "P", "D", "F", "s", SP,
      "q", "u", "e", SP, "s", "o", "n", SP, "p", "r", "i", "n", "c", "i",
      "p", "a", "l", "m", "e", "n", "t", "e", SP, "i", "m", "a", "g", "e",
      "n", "e", "s", LF, "*", SP, "P", "D", "F", "s", SP, "c", "o", "n", SP,
      "t", "e", "x", "t", "o", SP, "i", "n", "c", "r", "u", "s", "t", "a",
      "d", "o", LF, "*", SP, "P", "D", "F", "s", SP, "c", "o", "n", SP, "c",
      "o", "d", "i", "f", "i", "c", "a", "c", "i", "o", "n", SP, "e", "s",
      "p", "e", "c", "i", "a", "l", LF, LF, "I", "n", "t", "e", "n", "t",
      "a", SP, "c", "o", "n", SP, "u", "n", SP, "P", "D", "F", SP, "q", "u",
      "e", SP, "c", "o", "n", "t", "e", "n", "g", "a", SP, "t", "e", "x",
      "t", "o", SP, "s", "e", "l", "e", "c", "c", "i", "o", "n", "a", "b",
      "l", "e", ".">>

\* the state of the pagination loop
PagState(pages, current_page, lines_in_page) ==
    [pages |-> pages, current_page |-> current_page, lines_in_page |-> lines_in_page]

\* lines 73-75: close the buffer as a page
ClosePage(st) == PagState(Append(st.pages, Trim(st.current_page)), << >>, 0)

\* PushLine closing the buffer one line late
PushLineLate(st, line, content_height) ==
    LET st1 == IF st.lines_in_page > content_height
               THEN PagState(Append(st.pages, Trim(st.current_page)), << >>, 0)
               ELSE st
    IN  PagState(st1.pages, st1.current_page \o line \o <<LF>>, st1.lines_in_page + 1)

\* lines 72-80: one iteration of the loop over the lines of a section
PushLine(st, line, content_height) ==
    LET st1 == IF st.lines_in_page >= content_height THEN ClosePage(st) ELSE st
    IN  PagState(st1.pages, st1.current_page \o line \o <<LF>>, st1.lines_in_page + 1)

RECURSIVE PushLines(_, _, _)
PushLines(st, ls, content_height) ==
    IF ls = << >> THEN st
    ELSE PushLines(PushLine(st, Head(ls), content_height), Tail(ls), content_height)

\* EndSection leaving the buffer open
EndSectionOpen(st, nsections) == st

\* lines 83-89: at the end of a section of a document with several sections,
\* a buffer with content is closed
EndSection(st, nsections) ==
    IF nsections > 1 /\ ~IsBlank(st.current_page) THEN ClosePage(st) ELSE st

\* lines 68-89: one iteration of the loop over the sections
PushSection(st, section, content_width, content_height, nsections) ==
    EndSection(PushLines(st, Lines(fill(section, content_width)), content_height),
               nsections)

RECURSIVE PushSections(_, _, _, _, _)
PushSections(st, sections, content_width, content_height, nsections) ==
    IF sections = << >> THEN st
    ELSE PushSections(PushSection(st, Head(sections), content_width,
                                  content_height, nsections),
                      Tail(sections), content_width, content_height, nsections)

\* FinalPage dropping the last buffer
FinalPageDropped(st) == st.pages

\* lines 92-94 and 114-116: a last buffer with content is closed
FinalPage(st) ==
    IF ~IsBlank(st.current_page) THEN Append(st.pages, Trim(st.current_page))
    ELSE st.pages

\* lines 96-117: the whole text wrapped and cut again, sections ignored
Fallback(text, content_width, content_height) ==
    FinalPage(PushLines(PagState(<< >>, << >>, 0),
                        Lines(fill(text, content_width)), content_height))

\* IsEmptyText without the trim
IsEmptyTextUntrimmed(text) == text = << >>

\* line 55: the text holds nothing but white space
IsEmptyText(text) == Trim(text) = << >>

split_into_pages(text, width, height) ==
    LET content_width  == saturating_sub(width, WidthMargin)
        content_height == saturating_sub(height, HeightMargin)
        page_sections  == Split(text, FF)
        pages == FinalPage(PushSections(PagState(<< >>, << >>, 0), page_sections,
                                        content_width, content_height,
                                        Len(page_sections)))
    IN  IF IsEmptyText(text) THEN <<PLACEHOLDER>>
        ELSE IF pages = << >> THEN Fallback(text, content_width, content_height)
        ELSE pages

\* ------------------------------------------------------------- viewer state
VARIABLES
    full_text,        \* PdfViewer.full_text
    terminal_width,   \* PdfViewer.terminal_width
    terminal_height,  \* PdfViewer.terminal_height
    pages,            \* PdfViewer.pages
    total_pages,      \* PdfViewer.total_pages
    current_page,     \* PdfViewer.current_page
    pc,               \* position of the process: "new", "run", "loop",
                      \* "dispatch", "help", "help_dispatch", "done"
    raw_mode,         \* the terminal is in raw mode
    event,            \* the event read by event::read and not yet handled
    frame,            \* what the terminal shows
    exit_status       \* "running", "success" (status 0), "failure"

vars == <<full_text, terminal_width, terminal_height, pages, total_pages,
          current_page, pc, raw_mode, event, frame, exit_status>>

document == <<full_text, terminal_width, terminal_height, pages, total_pages>>

\* ------------------------------------------------------------------- events
KeyCodes == {"Left", "h", "Right", "l", "Home", "g", "End", "G",
             "q", "Esc", "r", "?", "x"}
KeyKinds == {"Press", "Release", "Repeat"}

NoEvent == [type |-> "none", kind |-> "none", code |-> "none"]
KeyEvents == [type : {"key"}, kind : KeyKinds, code : KeyCodes]
OtherEvents == {[type |-> "resize", kind |-> "none", code |-> "none"]}
Events == KeyEvents \cup OtherEvents

PrevKeys == {"Left", "h"}
NextKeys == {"Right", "l"}
FirstKeys == {"Home", "g"}
LastKeys == {"End", "G"}
QuitKeys == {"q", "Esc"}
RefreshKeys == {"r"}
HelpKeys == {"?"}
MappedKeys == PrevKeys \cup NextKeys \cup FirstKeys \cup LastKeys
                  \cup QuitKeys \cup RefreshKeys \cup HelpKeys

IsPress(e) == e.type = "key" /\ e.kind = "Press"

\* ---------------------------------------------------------------- draw_page
\* lines 125-126
content_width == saturating_sub(terminal_width, WidthMargin)
content_height == saturating_sub(terminal_height, HeightMargin)

\* lines 140-144: the text of page p (counted from 0)
page_content(p) == IF p < Len(pages) THEN pages[p + 1] ELSE << >>

\* displayed_lines without the break of line 150
displayed_lines_unbounded(p) == Len(Lines(page_content(p)))

\* lines 146-157: the lines of the page that are printed, the loop breaks
\* at content_height
displayed_lines(p) == Min(Len(Lines(page_content(p))), content_height)

\* lines 159-161: the blank rows printed for displayed..content_height
padding_rows(displayed) ==
    IF displayed < content_height THEN content_height - displayed ELSE 0

\* progress_filled counting the pages before the current one
progress_filled_before(p) == (p * BarCells) \div total_pages

\* line 177: filled cells of the progress bar
progress_filled(p) == ((p + 1) * BarCells) \div total_pages

\* line 178: empty cells of the progress bar
progress_empty(p) == BarCells - progress_filled(p)

\* What the terminal shows.  Of a drawn page: its index, the bordered
\* content rows, all rows printed (header, blank, top border, content rows,
\* bottom border, blank, controls, and the progress line of a document of
\* several pages) and the cells of the progress bar.
Frame(kind) ==
    [kind |-> kind, page |-> 0, content_rows |-> 0, rows |-> 0,
     filled |-> 0, empty |-> 0]

NoFrame == Frame("none")
HelpFrame == Frame("help")
ClearFrame == Frame("clear")
BrokenFrame == Frame("broken")

PageFrame(p) ==
    LET displayed == displayed_lines(p)
        content_rows == displayed + padding_rows(displayed)
    IN  [kind |-> "page",
         page |-> p,
         content_rows |-> content_rows,
         rows |-> 3 + content_rows + 3 + (IF total_pages > 1 THEN 1 ELSE 0),
         filled |-> (IF total_pages > 1 THEN progress_filled(p) ELSE 0),
         empty |-> (IF total_pages > 1 THEN progress_empty(p) ELSE 0)]

\* ------------------------------------------------------------- construction
InitViewer(texts) ==
    /\ full_text \in texts
    /\ terminal_width \in Widths
    /\ terminal_height \in Heights
    /\ pages = << >>
    /\ total_pages = 0
    /\ current_page = 0
    /\ pc = "new"
    /\ raw_mode = FALSE
    /\ event = NoEvent
    /\ frame = NoFrame
    /\ exit_status = "running"

Init == InitViewer(SessionTexts)
InitPages == InitViewer(Texts)

\* PdfViewer::new, lines 37-48
New ==
    /\ pc = "new"
    /\ pages' = split_into_pages(full_text, terminal_width, terminal_height)
    /\ total_pages' = (IF Len(pages') = 0 THEN 1 ELSE Len(pages'))
    /\ current_page' = 0
    /\ pc' = "run"
    /\ UNCHANGED <<full_text, terminal_width, terminal_height, raw_mode, event,
                   frame, exit_status>>

\* ---------------------------------------------------------------- navigation
\* next_page wrapping around to the first page
next_page_wrapping ==
    IF current_page + 1 < total_pages THEN current_page + 1 ELSE 0

\* PdfViewer::next_page, lines 188-192
next_page ==
    IF current_page + 1 < total_pages THEN current_page + 1 ELSE current_page

\* PdfViewer::prev_page, lines 194-198
prev_page ==
    IF current_page > 0 THEN current_page - 1 ELSE current_page

\* line 217
first_page == 0

\* last_page one past the end
last_page_past_end == total_pages

\* line 221
last_page == saturating_sub(total_pages, 1)

\* ------------------------------------------------------------------ the loop
\* the process ends with an error returned by run through main
Fail ==
    /\ pc' = "done"
    /\ exit_status' = "failure"

\* draw_page drawing the page that was current before the handler ran
draw_page_stale(ok) ==
    IF ok
    THEN /\ frame' = PageFrame(current_page)
         /\ pc' = "loop"
         /\ exit_status' = exit_status
    ELSE /\ frame' = BrokenFrame
         /\ Fail

\* PdfViewer::draw_page followed by the return to the top of the loop; ok is
\* the outcome of the terminal writes.  It reads current_page' and draws it.
draw_page(ok) ==
    IF ok
    THEN /\ frame' = PageFrame(current_page')
         /\ pc' = "loop"
         /\ exit_status' = exit_status
    ELSE /\ frame' = BrokenFrame
         /\ Fail

\* line 201 fails: run returns before the terminal is touched
EnableRawModeError ==
    /\ pc = "run"
    /\ Fail
    /\ UNCHANGED <<document, current_page, raw_mode, event, frame>>

\* lines 201-202
RunStart ==
    /\ pc = "run"
    /\ raw_mode' = TRUE
    /\ current_page' = current_page
    /\ \E ok \in BOOLEAN : draw_page(ok)
    /\ UNCHANGED <<document, event>>

\* line 204: poll returns an error
PollError ==
    /\ pc = "loop"
    /\ Fail
    /\ UNCHANGED <<document, current_page, raw_mode, event, frame>>

\* line 204: no event within the poll interval
PollTimeout ==
    /\ pc = "loop"
    /\ UNCHANGED vars

\* line 205: read returns an error
ReadError ==
    /\ pc = "loop"
    /\ Fail
    /\ UNCHANGED <<document, current_page, raw_mode, event, frame>>

\* lines 204-205: an event is available and is read
Read ==
    /\ pc = "loop"
    /\ event' \in Events
    /\ pc' = "dispatch"
    /\ UNCHANGED <<document, current_page, raw_mode, frame, exit_status>>

\* lines 205-206: an event that is not a key press is dropped
Ignore ==
    /\ pc = "dispatch"
    /\ ~IsPress(event)
    /\ pc' = "loop"
    /\ event' = NoEvent
    /\ UNCHANGED <<document, current_page, raw_mode, frame, exit_status>>

\* a key press that moves to page p and draws it
Navigate(keys, p) ==
    /\ pc = "dispatch"
    /\ IsPress(event)
    /\ event.code \in keys
    /\ current_page' = p
    /\ event' = NoEvent
    /\ \E ok \in BOOLEAN : draw_page(ok)
    /\ UNCHANGED <<document, raw_mode>>

\* lines 208-211
PressPrev == Navigate(PrevKeys, prev_page)

\* lines 212-215
PressNext == Navigate(NextKeys, next_page)

\* lines 216-219
PressFirst == Navigate(FirstKeys, first_page)

\* lines 220-223
PressLast == Navigate(LastKeys, last_page)

\* PressRefresh going back to the first page
PressRefreshResets == Navigate(RefreshKeys, first_page)

\* lines 227-229
PressRefresh == Navigate(RefreshKeys, current_page)

\* line 254
PressOther ==
    /\ pc = "dispatch"
    /\ IsPress(event)
    /\ event.code \notin MappedKeys
    /\ pc' = "loop"
    /\ event' = NoEvent
    /\ UNCHANGED <<document, current_page, raw_mode, frame, exit_status>>

\* PressQuit leaving the terminal as it is
PressQuitKeepsRaw ==
    /\ pc = "dispatch"
    /\ IsPress(event)
    /\ event.code \in QuitKeys
    /\ pc' = "done"
    /\ event' = NoEvent
    /\ \E okClear \in BOOLEAN :
          /\ raw_mode' = raw_mode
          /\ frame' = (IF okClear THEN ClearFrame ELSE frame)
          /\ exit_status' = (IF okClear THEN "success" ELSE "failure")
    /\ UNCHANGED <<document, current_page>>

\* lines 224-226 and 261-265: the loop ends, raw mode is disabled and the
\* screen cleared; either call may fail and end run with an error
PressQuit ==
    /\ pc = "dispatch"
    /\ IsPress(event)
    /\ event.code \in QuitKeys
    /\ pc' = "done"
    /\ event' = NoEvent
    /\ \E okRaw \in BOOLEAN, okClear \in BOOLEAN :
          /\ raw_mode' = (IF okRaw THEN FALSE ELSE raw_mode)
          /\ frame' = (IF okRaw /\ okClear THEN ClearFrame ELSE frame)
          /\ exit_status' = (IF okRaw /\ okClear THEN "success" ELSE "failure")
    /\ UNCHANGED <<document, current_page>>

\* lines 230-245: the overlay replaces the page
PressHelp ==
    /\ pc = "dispatch"
    /\ IsPress(event)
    /\ event.code \in HelpKeys
    /\ event' = NoEvent
    /\ \E ok \in BOOLEAN :
          IF ok
          THEN /\ frame' = HelpFrame
               /\ pc' = "help"
               /\ exit_status' = exit_status
          ELSE /\ frame' = BrokenFrame
               /\ Fail
    /\ UNCHANGED <<document, current_page, raw_mode>>

\* line 248: read returns an error while the overlay is shown
HelpReadError ==
    /\ pc = "help"
    /\ Fail
    /\ UNCHANGED <<document, current_page, raw_mode, event, frame>>

\* line 248: the overlay's loop reads an event
HelpRead ==
    /\ pc = "help"
    /\ event' \in Events
    /\ pc' = "help_dispatch"
    /\ UNCHANGED <<document, current_page, raw_mode, frame, exit_status>>

\* line 248: an event that is no key event keeps the overlay
HelpIgnore ==
    /\ pc = "help_dispatch"
    /\ event.type # "key"
    /\ pc' = "help"
    /\ event' = NoEvent
    /\ UNCHANGED <<document, current_page, raw_mode, frame, exit_status>>

\* HelpDismiss letting a quit key through
HelpDismissQuits ==
    /\ pc = "help_dispatch"
    /\ event.type = "key"
    /\ current_page' = current_page
    /\ event' = NoEvent
    /\ IF event.code \in QuitKeys
       THEN /\ pc' = "done"
            /\ frame' = ClearFrame
            /\ exit_status' = "success"
       ELSE \E ok \in BOOLEAN : draw_page(ok)
    /\ UNCHANGED <<document, raw_mode>>

\* lines 248-252: a key event of any kind closes the overlay, the page is drawn
HelpDismiss ==
    /\ pc = "help_dispatch"
    /\ event.type = "key"
    /\ current_page' = current_page
    /\ event' = NoEvent
    /\ \E ok \in BOOLEAN : draw_page(ok)
    /\ UNCHANGED <<document, raw_mode>>

Next ==
    \/ New
    \/ EnableRawModeError
    \/ RunStart
    \/ PollError
    \/ PollTimeout
    \/ ReadError
    \/ Read
    \/ Ignore
    \/ PressPrev
    \/ PressNext
    \/ PressFirst
    \/ PressLast
    \/ PressRefresh
    \/ PressOther
    \/ PressQuit
    \/ PressHelp
    \/ HelpReadError
    \/ HelpRead
    \/ HelpIgnore
    \/ HelpDismiss

\* an interactive session
Spec == Init /\ [][Next]_vars

\* the paginator alone, over longer texts
NextPages == New
SpecPages == InitPages /\ [][NextPages]_vars

\* ------------------------------------------------------------------- claims
\* the viewer has been constructed
Constructed == pc # "new"

\* the wrapped lines of a section, as the loop of split_into_pages sees them
WrappedLines(section) == Lines(fill(section, content_width))

\* number of lines of a page
LineCount(page) == Len(Lines(page))

\* C1: in every state of the session current_page indexes an existing page,
\* 0 <= current_page < total_pages, and total_pages is the number of pages
\* split_into_pages returns for the document and the viewport.
C1_IndexBounds ==
    Constructed =>
        /\ 0 <= current_page
        /\ current_page < total_pages
        /\ total_pages =
               Len(split_into_pages(full_text, terminal_width, terminal_height))
        /\ current_page + 1 \in DOMAIN pages

\* the last of several pages is shown after a navigation
C1_Witness ==
    /\ pc = "loop"
    /\ total_pages >= 3
    /\ current_page = total_pages - 1
    /\ frame = PageFrame(current_page)

\* C2: for any text and any viewport, those with content width or content
\* height 0 included, split_into_pages returns at least one page.
C2_AtLeastOnePage ==
    pc = "run" => Len(pages) >= 1

\* a text with content paginated for a viewport without content rows and columns
C2_Witness ==
    /\ pc = "run"
    /\ ~IsBlank(full_text)
    /\ content_width = 0
    /\ content_height = 0
    /\ Len(pages) >= 1

\* C3: every page returned by split_into_pages, the placeholder page and the
\* pages of a viewport of height <= 8 included, has at most content_height
\* lines.
C3_HeightBound ==
    pc = "run" =>
        \A i \in DOMAIN pages : LineCount(pages[i]) <= content_height

\* the text is two sections separated by one page-break marker, each of which
\* wraps to fewer than content_height lines
TwoShortSections ==
    /\ Len(Split(full_text, FF)) = 2
    /\ \A i \in 1..2 :
          Len(WrappedLines(Split(full_text, FF)[i])) < content_height

\* one page for each of the two sections, holding that section's lines
OnePagePerSection ==
    /\ Len(pages) = 2
    /\ \A i \in 1..2 : pages[i] = Trim(fill(Split(full_text, FF)[i], content_width))

C5_SaturatingNavigation ==
    [][(pc = "dispatch" /\ IsPress(event)) =>
          /\ event.code \in NextKeys =>
                 current_page' = Min(current_page + 1, total_pages - 1)
          /\ event.code \in PrevKeys =>
                 current_page' = Max(current_page - 1, 0)
          /\ event.code \in FirstKeys => current_page' = 0
          /\ event.code \in LastKeys => current_page' = total_pages - 1]_vars

\* a next key is pressed on the last of several pages
C5_Witness ==
    /\ pc = "dispatch"
    /\ IsPress(event)
    /\ event.code \in NextKeys
    /\ total_pages >= 2
    /\ current_page = total_pages - 1

\* C6: from the press of '?' to the key that closes the overlay no step
\* changes current_page, and the closing key, whatever it is, is consumed:
\* it leads back to the page view of the same page and ends the session only
\* when the terminal write of that page fails.
C6_HelpKeepsPage ==
    [][/\ (pc = "dispatch" /\ IsPress(event) /\ event.code \in HelpKeys) =>
              /\ current_page' = current_page
              /\ pc' = "help" \/ exit_status' = "failure"
       /\ pc \in {"help", "help_dispatch"} =>
              /\ current_page' = current_page
              /\ exit_status' # "success"
       /\ (pc = "help_dispatch" /\ event.type = "key") =>
              \/ pc' = "loop" /\ frame' = PageFrame(current_page)
              \/ pc' = "done" /\ exit_status' = "failure"]_vars

\* the overlay, opened on a later page, is about to be closed by a quit key
C6_Witness ==
    /\ pc = "help_dispatch"
    /\ IsPress(event)
    /\ event.code \in QuitKeys
    /\ current_page > 0

\* C7: a key event of kind release or repeat changes nothing: it does not
\* change current_page, does not end the session, does not open the overlay
\* and does not close it.
C7_OnlyPressActs ==
    [][(/\ pc \in {"dispatch", "help_dispatch"}
        /\ event.type = "key"
        /\ event.kind # "Press") =>
          /\ current_page' = current_page
          /\ frame' = frame
          /\ pc' = (IF pc = "dispatch" THEN "loop" ELSE "help")]_vars

\* C8: the process never exits with the terminal in raw mode.
C8_RawModeRestored ==
    pc = "done" => ~raw_mode

\* the text has no page-break marker and wraps to n >= 1 lines, none of them
\* blank, for a viewport of content height h >= 1
PlainLines ==
    /\ \A i \in DOMAIN full_text : full_text[i] # FF
    /\ content_height >= 1
    /\ Len(WrappedLines(full_text)) >= 1
    /\ \A i \in DOMAIN WrappedLines(full_text) : ~IsBlank(WrappedLines(full_text)[i])

CeilDiv(n, h) == (n + h - 1) \div h

\* C9: a text without page-break marker that wraps to n lines, none blank,
\* gives ceil(n / h) pages for content height h >= 1: every page but the
\* last has h lines and the last has the n - (ceil(n / h) - 1) * h others.
C9_CeilPages ==
    (pc = "run" /\ PlainLines) =>
        LET n == Len(WrappedLines(full_text))
            h == content_height
            k == CeilDiv(n, h)
        IN  /\ Len(pages) = k
            /\ \A i \in 1..Len(pages) :
                  LineCount(pages[i]) = (IF i < k THEN h ELSE n - (k - 1) * h)

\* several pages, the last of them not full
C9_Witness ==
    /\ pc = "run"
    /\ PlainLines
    /\ content_height >= 2
    /\ Len(pages) >= 2
    /\ LineCount(pages[Len(pages)]) < content_height

\* C10: a text of white space only (empty, blanks, page-break markers) gives
\* exactly one page, the placeholder message, for every viewport.
C10_Placeholder ==
    (pc = "run" /\ \A i \in DOMAIN full_text : full_text[i] \in WhiteSpace) =>
        pages = <<PLACEHOLDER>>

\* a text of page-break markers and blanks gave the placeholder
C10_Witness ==
    /\ pc = "run"
    /\ Len(full_text) >= 2
    /\ \A i \in DOMAIN full_text : full_text[i] \in {FF, SP}
    /\ \E i \in DOMAIN full_text : full_text[i] = FF
    /\ pages = <<PLACEHOLDER>>

\* a quit key is pressed in the page view
QuitPressed == pc = "dispatch" /\ IsPress(event) /\ event.code \in QuitKeys

\* C11 as stated: a press of 'q' or Escape in the page view ends the loop
\* for good: raw mode is disabled, the screen is cleared, the process exits
\* with status 0 and no later step changes anything.
C11_QuitExitsZero ==
    [][/\ QuitPressed =>
              /\ pc' = "done"
              /\ ~raw_mode'
              /\ frame' = ClearFrame
              /\ exit_status' = "success"
       /\ pc = "done" => vars' = vars]_vars

\* C11 amended: the press ends the loop for good and leaves the viewer state
\* as it is; when disabling raw mode and clearing the screen succeed, raw mode
\* is off, the screen is cleared and the status is 0, and when one of the two
\* calls fails the process exits with an error status.
C11_QuitIsFinal ==
    [][/\ QuitPressed =>
              /\ pc' = "done"
              /\ current_page' = current_page
              /\ document' = document
              /\ \/ exit_status' = "success" /\ ~raw_mode' /\ frame' = ClearFrame
                 \/ exit_status' = "failure"
       /\ pc = "done" => vars' = vars]_vars

\* the session was left by a quit key on a later page
C11_Witness ==
    /\ pc = "done"
    /\ exit_status = "success"
    /\ ~raw_mode
    /\ frame = ClearFrame
    /\ current_page > 0

\* C12: whatever page is drawn, shorter than, as long as or longer than the
\* box, draw_page prints exactly content_height bordered content rows, so
\* the number of rows of a frame depends on the viewport and on whether the
\* document has several pages only.
C12_FixedRows ==
    frame.kind = "page" =>
        /\ frame.content_rows = content_height
        /\ frame.rows = content_height + 6 + (IF total_pages > 1 THEN 1 ELSE 0)

\* a page with more lines than the box has rows is on the screen
C12_Witness ==
    /\ frame.kind = "page"
    /\ LineCount(pages[frame.page + 1]) > content_height
    /\ content_height >= 1

\* C13: for a document of several pages the progress bar of the drawn page
\* has floor((page + 1) * 20 / total_pages) filled cells and 20 - filled
\* empty ones, 0 <= filled <= 20, filled does not decrease with the page and
\* is 20 on the last page.
C13_ProgressBar ==
    (frame.kind = "page" /\ total_pages > 1) =>
        /\ frame.filled = ((frame.page + 1) * 20) \div total_pages
        /\ frame.empty = 20 - frame.filled
        /\ frame.filled \in 0..20
        /\ frame.empty \in 0..20
        /\ frame.page = total_pages - 1 => frame.filled = 20
        /\ \A q \in 0..(total_pages - 1) :
              LET there == ((q + 1) * 20) \div total_pages
              IN  /\ q <= frame.page => there <= frame.filled
                  /\ q >= frame.page => there >= frame.filled

\* the middle page of three or more is on the screen
C13_Witness ==
    /\ frame.kind = "page"
    /\ total_pages >= 3
    /\ frame.page = 1
    /\ pc = "loop"

\* C14: every line of every page split_into_pages returns is at most
\* content_width columns wide, unless the line is one single word.
C14_WidthBound ==
    pc = "run" =>
        \A i \in DOMAIN pages :
            \A j \in DOMAIN Lines(pages[i]) :
                LET line == Lines(pages[i])[j]
                IN  \/ Len(line) <= content_width
                    \/ \A k \in DOMAIN line : line[k] # SP

\* the width bound for the texts that are not blank (it holds: the pages of
\* the placeholder alone are wider)
WidthBoundOfContent == IsBlank(full_text) \/ C14_WidthBound

\* sequences joined in order
RECURSIVE Flatten(_)
Flatten(ss) == IF ss = << >> THEN << >> ELSE Head(ss) \o Flatten(Tail(ss))

Sections == Split(full_text, FF)

\* the pages of a section paginated alone: its wrapped lines put into an
\* empty buffer with the line counter at 0, the last buffer closed
SectionAlone(section) ==
    FinalPage(PushLines(PagState(<< >>, << >>, 0), WrappedLines(section),
                        content_height))

\* C15: in a document of several sections every section starts with an
\* empty buffer and line counter: the pages are, section after section, the
\* pages of each section paginated alone, whatever precedes it.
C15_SectionsIndependent ==
    (pc = "run" /\ Len(Sections) > 1 /\ ~IsBlank(full_text)) =>
        pages = Flatten([i \in DOMAIN Sections |-> SectionAlone(Sections[i])])

\* the same for the documents without blank section (it holds: the buffer of
\* a blank section alone is left open)
SectionsWithContentIndependent ==
    (\E i \in DOMAIN Sections : IsBlank(Sections[i])) \/ C15_SectionsIndependent

\* lines without the blank lines at their start and at their end
RECURSIVE StripBlankLines(_)
StripBlankLines(ls) ==
    IF ls = << >> THEN << >>
    ELSE IF IsBlank(Head(ls)) THEN StripBlankLines(Tail(ls))
    ELSE IF IsBlank(ls[Len(ls)]) THEN StripBlankLines(SubSeq(ls, 1, Len(ls) - 1))
    ELSE ls

\* the text has content and no page-break marker, the box has rows: the
\* i-th buffer closed holds the i-th run of content_height wrapped lines
OneSection ==
    /\ \A i \in DOMAIN full_text : full_text[i] # FF
    /\ ~IsBlank(full_text)
    /\ content_height >= 1

Buffer(i) ==
    SubSeq(WrappedLines(full_text), (i - 1) * content_height + 1,
           Min(i * content_height, Len(WrappedLines(full_text))))

\* C16: closing a buffer removes whole blank lines at its start and end
\* only: the lines of the page are the lines of the buffer without those,
\* the first line with its indentation.
C16_TrimKeepsLines ==
    (pc = "run" /\ OneSection) =>
        \A i \in DOMAIN pages : Lines(pages[i]) = StripBlankLines(Buffer(i))

\* the same but for the indentation of the first line of a page (it holds)
TrimKeepsLinesButIndent ==
    (pc = "run" /\ OneSection) =>
        \A i \in DOMAIN pages :
            LET kept == StripBlankLines(Buffer(i))
            IN  Lines(pages[i]) =
                    (IF kept = << >> THEN << >>
                     ELSE <<TrimStart(Head(kept))>> \o Tail(kept))

NavigationKeys == PrevKeys \cup NextKeys \cup FirstKeys \cup LastKeys

\* C17: once the viewer is constructed no step changes the text, the stored
\* terminal size, pages or total_pages, and current_page changes only in the
\* handler of a pressed previous, next, first or last key: drawing, refresh,
\* the help overlay and unmapped keys leave it alone.
C17_FrameEffect ==
    [][pc # "new" =>
          /\ document' = document
          /\ current_page' # current_page =>
                 /\ pc = "dispatch"
                 /\ IsPress(event)
                 /\ event.code \in NavigationKeys]_vars

\* the refresh key is pressed on a later page
C17_Witness ==
    /\ pc = "dispatch"
    /\ IsPress(event)
    /\ event.code \in RefreshKeys
    /\ current_page > 0

NonBlankLines(ls) == SelectSeq(ls, LAMBDA l : ~IsBlank(l))

\* C18: for a text with content the lines of all pages in page order, blank
\* lines left out, are the wrapped lines of the sections in document order,
\* blank lines left out.
C18_NothingLost ==
    (pc = "run" /\ ~IsBlank(full_text)) =>
        NonBlankLines(Flatten([i \in DOMAIN pages |-> Lines(pages[i])]))
            = NonBlankLines(Flatten([i \in DOMAIN Sections |->
                                        WrappedLines(Sections[i])]))

RECURSIVE Unindented(_)
Unindented(ls) ==
    IF ls = << >> THEN << >> ELSE <<TrimStart(Head(ls))>> \o Unindented(Tail(ls))

\* the same with the indentation of every line left out (it holds)
NothingLostButIndent ==
    (pc = "run" /\ ~IsBlank(full_text)) =>
        Unindented(NonBlankLines(Flatten([i \in DOMAIN pages |-> Lines(pages[i])])))
            = Unindented(NonBlankLines(Flatten([i \in DOMAIN Sections |->
                                                   WrappedLines(Sections[i])])))

\* C19: whenever the loop waits for the next event in the page view, the
\* terminal shows the page current_page: every handler that changes
\* current_page or closes the overlay has drawn the new state.
C19_FrameIsCurrent ==
    pc = "loop" => frame.kind = "page" /\ frame.page = current_page

\* the loop waits with the second of two pages on the screen
C19_Witness ==
    /\ pc = "loop"
    /\ total_pages = 2
    /\ current_page = 1
    /\ frame.kind = "page"
    /\ frame.page = 1

====
